---- MODULE Spec2Model ----
(***************************************************************************)
(* Model of split_pdf.py: one processing request of the PDF split/convert  *)
(* tool.  Strings are sequences of one-character strings, the file system  *)
(* is a function from paths to file contents, a PDF is the sequence of its *)
(* page numbers and a JPG is the one-element sequence of the page it shows.*)
(***************************************************************************)
EXTENDS Integers, Sequences, FiniteSets, TLC

\* ---------------------------------------------------------------- bounds
MaxPages == 4
MaxSplit == 3
MaxTextLen == 5

\* Characters the text area may hold; NL is the line break split() cuts at.
NL == "\n"
Alphabet == {"a", "b", "c", " ", NL}
Whitespace == {" "}

Texts == UNION {[1..n -> Alphabet] : n \in 0..MaxTextLen}

\* ------------------------------------------------------- string helpers
Min(a, b) == IF a <= b THEN a ELSE b

RECURSIVE Split(_)
\* str.split('\n'): always at least one piece, empty pieces kept.
Split(s) ==
    IF \A k \in 1..Len(s) : s[k] # NL
    THEN <<s>>
    ELSE LET k == CHOOSE j \in 1..Len(s) :
                      s[j] = NL /\ \A h \in 1..(j - 1) : s[h] # NL
         IN  <<SubSeq(s, 1, k - 1)>> \o Split(SubSeq(s, k + 1, Len(s)))

RECURSIVE LStrip(_)
LStrip(s) == IF s # <<>> /\ s[1] \in Whitespace THEN LStrip(Tail(s)) ELSE s

RECURSIVE RStrip(_)
RStrip(s) ==
    IF s # <<>> /\ s[Len(s)] \in Whitespace
    THEN RStrip(SubSeq(s, 1, Len(s) - 1))
    ELSE s

\* str.strip()
Strip(s) == RStrip(LStrip(s))

RECURSIVE StripNonBlank(_)
\* [name.strip() for name in lines if name.strip()]
StripNonBlank(lines) ==
    IF lines = <<>> THEN <<>>
    ELSE LET n == Strip(Head(lines))
         IN  (IF n # <<>> THEN <<n>> ELSE <<>>) \o StripNonBlank(Tail(lines))

ParseNames(text) == StripNonBlank(Split(text))

\* os.path.join(a, b) for two components
PathJoin(a, b) ==
    IF b # <<>> /\ b[1] = "/" THEN b
    ELSE IF a = <<>> \/ a[Len(a)] = "/" THEN a \o b
    ELSE a \o <<"/">> \o b

BasenameWhole(p) == p

\* os.path.basename(p): what follows the last "/"
Basename(p) ==
    IF \A k \in 1..Len(p) : p[k] # "/" THEN p
    ELSE LET k == CHOOSE j \in 1..Len(p) :
                      p[j] = "/" /\ \A h \in (j + 1)..Len(p) : p[h] # "/"
         IN  SubSeq(p, k + 1, Len(p))

PdfExt == <<".", "p", "d", "f">>
JpgExt == <<".", "j", "p", "g">>

\* tempfile.TemporaryDirectory() and the paths the handler derives from it
temp_dir == <<"/", "t">>
uploaded_name == <<"u">> \o PdfExt
input_pdf_path == PathJoin(temp_dir, uploaded_name)
output_dir == PathJoin(temp_dir, <<"o", "u", "t">>)
zip_path == PathJoin(temp_dir, <<"z", "i", "p">>)

\* ------------------------------------------------------ file system
NoFiles == [q \in {} |-> <<>>]

WriteFile(files, p, c) ==
    [q \in (DOMAIN files) \cup {p} |-> IF q = p THEN c ELSE files[q]]

IsUnder(d, p) ==
    /\ Len(p) > Len(d) + 1
    /\ SubSeq(p, 1, Len(d)) = d
    /\ p[Len(d) + 1] = "/"

RemoveTreeKeepFiles(files, d) == files

\* TemporaryDirectory.__exit__: everything below the directory goes
RemoveTree(files, d) ==
    [q \in {p \in DOMAIN files : ~IsUnder(d, p)} |-> files[q]]

\* ------------------------------------------------------ arithmetic
FloorDiv(a, b) == a \div b

\* math.ceil(total_pages / pages_per_split)
CeilDiv(a, b) == IF a % b = 0 THEN a \div b ELSE (a \div b) + 1

NameCountAlwaysOk(n, names) == TRUE

\* the guard of line 127, negated: the counts agree
NameCountOk(n, names) == n = Len(names)

\* end_page = min(i + pages_per_split, total_pages)
ChunkEnd(i0, per, total) == Min(i0 + per, total)

ChunkPagesSkipFirst(pages, start, end) == SubSeq(pages, start + 2, end)

\* the writer after the inner loop: reader.pages[start_page .. end_page-1]
ChunkPages(pages, start, end) == SubSeq(pages, start + 1, end)

NextStartSkip(i0, per) == i0 + per + 1

\* the step of range(0, total_pages, pages_per_split)
NextStart(i0, per) == i0 + per

JpgLoopBoundShort(total, names) == Min(total, Len(names)) - 1

\* range(min(total_pages, len(output_filenames)))
JpgLoopBound(total, names) == Min(total, Len(names))

HasFilesAlways(files) == TRUE

\* `if generated_files:`
HasFiles(files) == files # <<>>

\* st.error / st.warning / st.info / st.write / st.success lines
Msg(kind, name, a, b) == [kind |-> kind, name |-> name, a |-> a, b |-> b]

IOOutcomes == {"ok", "open_fail", "write_fail"}

\* ------------------------------------------------------ state
VARIABLES
    pc,                 \* position of the request handler
    convert_from_path,  \* "fn" or "None" (import guard, lines 13-17)
    output_format,      \* 'pdf' | 'jpg'
    pages_per_split,
    output_filenames,   \* parsed names
    doc_pages,          \* page count of the uploaded document
    dirs,               \* directories that exist
    fs,                 \* path -> content
    reader_pages,       \* reader.pages
    total_pages,
    num_expected_files,
    generated_files,    \* the handler's list (line 135)
    fn_files,           \* the list local to split_to_pdf / convert_to_jpg
    i,                  \* loop variable of the running function
    file_index,
    images,             \* result of convert_from_path
    zip_entries,        \* members of the archive being written
    zi,                 \* members written so far
    download,           \* what the download button serves; <<>> if none
    offered,            \* the download button was rendered
    msgs                \* everything shown to the user, in order

vars == <<pc, convert_from_path, output_format, pages_per_split,
          output_filenames, doc_pages, dirs, fs, reader_pages, total_pages,
          num_expected_files, generated_files, fn_files, i, file_index,
          images, zip_entries, zi, download, offered, msgs>>

inputs == <<convert_from_path, output_format, pages_per_split,
            output_filenames, doc_pages>>
locals == <<fn_files, i, file_index, images>>
zipvars == <<zip_entries, zi, download, offered>>

Init ==
    /\ pc = "idle"
    /\ convert_from_path \in {"fn", "None"}
    /\ output_format = "pdf"
    /\ pages_per_split = 1
    /\ output_filenames = <<>>
    /\ doc_pages = 0
    /\ dirs = {}
    /\ fs = NoFiles
    /\ reader_pages = <<>>
    /\ total_pages = 0
    /\ num_expected_files = 0
    /\ generated_files = <<>>
    /\ fn_files = <<>>
    /\ i = 0
    /\ file_index = 0
    /\ images = <<>>
    /\ zip_entries = <<>>
    /\ zi = 0
    /\ download = <<>>
    /\ offered = FALSE
    /\ msgs = <<>>

\* Sidebar values at the moment the button is pressed (lines 77-107).
Submit ==
    /\ pc = "idle"
    /\ \E text \in Texts, pages \in 0..MaxPages,
          fmt \in {"pdf", "jpg"}, per \in 1..MaxSplit :
        /\ output_format' = fmt
        /\ pages_per_split' = IF fmt = "pdf" THEN per ELSE 1
        /\ output_filenames' = ParseNames(text)
        /\ doc_pages' = pages
    /\ pc' = "clicked"
    /\ UNCHANGED <<convert_from_path, dirs, fs, reader_pages, total_pages,
                   num_expected_files, generated_files, locals, zipvars, msgs>>

\* Lines 108-114: empty name list, else enter try / with TemporaryDirectory.
CheckNames ==
    /\ pc = "clicked"
    /\ IF output_filenames = <<>>
       THEN /\ msgs' = Append(msgs, Msg("NoNames", <<>>, 0, 0))
            /\ pc' = "done"
            /\ UNCHANGED dirs
       ELSE /\ dirs' = dirs \cup {temp_dir}
            /\ pc' = "read"
            /\ UNCHANGED msgs
    /\ UNCHANGED <<inputs, fs, reader_pages, total_pages, num_expected_files,
                   generated_files, locals, zipvars>>

\* Lines 116-123: store the upload, open it, count its pages.
ReadPdf ==
    /\ pc = "read"
    /\ \E r \in IOOutcomes :
        \/ /\ r = "ok"
           /\ fs' = WriteFile(fs, input_pdf_path, [k \in 1..doc_pages |-> k])
           /\ reader_pages' = [k \in 1..doc_pages |-> k]
           /\ total_pages' = doc_pages
           /\ msgs' = Append(msgs, Msg("info", uploaded_name, doc_pages, 0))
           /\ pc' = "guard"
        \/ /\ r = "open_fail"
           /\ pc' = "raise"
           /\ UNCHANGED <<fs, reader_pages, total_pages, msgs>>
        \/ /\ r = "write_fail"      \* stored, but PdfReader rejects it
           /\ fs' = WriteFile(fs, input_pdf_path, <<>>)
           /\ pc' = "raise"
           /\ UNCHANGED <<reader_pages, total_pages, msgs>>
    /\ UNCHANGED <<inputs, dirs, num_expected_files, generated_files,
                   locals, zipvars>>

\* Lines 126-135: the name-count guard, then the output directory.
CheckCount ==
    /\ pc = "guard"
    /\ LET n == CeilDiv(total_pages, pages_per_split) IN
        /\ num_expected_files' = n
        /\ IF ~NameCountOk(n, output_filenames)
           THEN /\ msgs' = msgs \o <<Msg("error", <<>>, 0, 0),
                                     Msg("NameCountMismatch", <<>>, n,
                                         Len(output_filenames))>>
                /\ pc' = "exit_with"
                /\ UNCHANGED dirs
           ELSE /\ dirs' = dirs \cup {output_dir}
                /\ pc' = "dispatch"
                /\ UNCHANGED msgs
    /\ generated_files' = <<>>
    /\ UNCHANGED <<inputs, fs, reader_pages, total_pages, locals, zipvars>>

\* Lines 137-142: call the function the format selects.
Dispatch ==
    /\ pc = "dispatch"
    /\ msgs' = Append(msgs, Msg("start", <<>>, 0, 0))
    /\ fn_files' = <<>>
    /\ i' = 0
    /\ file_index' = 0
    /\ images' = <<>>
    /\ pc' = IF output_format = "pdf" THEN "split_loop" ELSE "convert"
    /\ UNCHANGED <<inputs, dirs, fs, reader_pages, total_pages,
                   num_expected_files, generated_files, zipvars>>

\* ------------------------------------------------------ split_to_pdf
\* One iteration of the loop of lines 25-41.
SplitUnit ==
    /\ pc = "split_loop"
    /\ i < total_pages
    /\ LET start_page == i
           end_page == ChunkEnd(i, pages_per_split, total_pages)
       IN
       IF end_page > Len(reader_pages) \/ file_index >= Len(output_filenames)
       THEN \* IndexError from reader.pages[...] or output_filenames[...]
            /\ pc' = "raise"
            /\ UNCHANGED <<fs, fn_files, i, file_index, msgs>>
       ELSE LET writer == ChunkPages(reader_pages, start_page, end_page)
                output_filename == output_filenames[file_index + 1] \o PdfExt
                output_path == PathJoin(output_dir, output_filename)
            IN  \E r \in IOOutcomes :
                \/ /\ r = "ok"
                   /\ fs' = WriteFile(fs, output_path, writer)
                   /\ fn_files' = Append(fn_files, output_path)
                   /\ msgs' = Append(msgs, Msg("write", output_filename,
                                               start_page + 1, end_page))
                   /\ file_index' = file_index + 1
                   /\ i' = NextStart(i, pages_per_split)
                   /\ pc' = "split_loop"
                \/ /\ r = "open_fail"
                   /\ pc' = "raise"
                   /\ UNCHANGED <<fs, fn_files, i, file_index, msgs>>
                \/ /\ r = "write_fail"   \* opened "wb", then write() fails
                   /\ fs' = WriteFile(fs, output_path, <<>>)
                   /\ pc' = "raise"
                   /\ UNCHANGED <<fn_files, i, file_index, msgs>>
    /\ UNCHANGED <<inputs, dirs, reader_pages, total_pages,
                   num_expected_files, generated_files, images, zipvars>>

\* Line 42 and the assignment of line 139.
SplitReturn ==
    /\ pc = "split_loop"
    /\ i >= total_pages
    /\ generated_files' = fn_files
    /\ pc' = "pack"
    /\ UNCHANGED <<inputs, dirs, fs, reader_pages, total_pages,
                   num_expected_files, locals, zipvars, msgs>>

\* ------------------------------------------------------ convert_to_jpg
\* Lines 46-54: the import guard, the rendering, the page-count warning.
\* The renderer may return any number of images, or raise.
ConvertStart ==
    /\ pc = "convert"
    /\ IF convert_from_path = "None"
       THEN /\ msgs' = Append(msgs, Msg("RenderingUnavailable", <<>>, 0, 0))
            /\ generated_files' = <<>>
            /\ pc' = "pack"
            /\ UNCHANGED <<fn_files, i, images>>
       ELSE \E n \in (-1)..(total_pages + 1) :
            IF n < 0
            THEN /\ pc' = "raise"
                 /\ UNCHANGED <<msgs, generated_files, fn_files, i, images>>
            ELSE /\ images' = [k \in 1..n |-> k]
                 /\ fn_files' = <<>>
                 /\ i' = 0
                 /\ msgs' = IF n # total_pages
                            THEN Append(msgs, Msg("PageCountMismatch", <<>>,
                                                  total_pages, n))
                            ELSE msgs
                 /\ pc' = "jpg_loop"
                 /\ UNCHANGED generated_files
    /\ UNCHANGED <<inputs, dirs, fs, reader_pages, total_pages,
                   num_expected_files, file_index, zipvars>>

\* One iteration of the loop of lines 56-61.
ConvertUnit ==
    /\ pc = "jpg_loop"
    /\ i < JpgLoopBound(total_pages, output_filenames)
    /\ LET output_filename == output_filenames[i + 1] \o JpgExt
           output_path == PathJoin(output_dir, output_filename)
       IN  \E r \in IOOutcomes :
           \/ /\ r = "ok"
              /\ i < Len(images)
              /\ fs' = WriteFile(fs, output_path, <<images[i + 1]>>)
              /\ fn_files' = Append(fn_files, output_path)
              /\ msgs' = Append(msgs, Msg("write", output_filename, i + 1, i + 1))
              /\ i' = i + 1
              /\ pc' = "jpg_loop"
           \/ /\ r = "open_fail"    \* images[i] IndexError, or save() refused
              /\ pc' = "raise"
              /\ UNCHANGED <<fs, fn_files, i, msgs>>
           \/ /\ r = "write_fail"
              /\ i < Len(images)
              /\ fs' = WriteFile(fs, output_path, <<>>)
              /\ pc' = "raise"
              /\ UNCHANGED <<fn_files, i, msgs>>
    /\ UNCHANGED <<inputs, dirs, reader_pages, total_pages,
                   num_expected_files, generated_files, file_index, images,
                   zipvars>>

\* Line 62 and the assignment of line 142.
ConvertReturn ==
    /\ pc = "jpg_loop"
    /\ i >= JpgLoopBound(total_pages, output_filenames)
    /\ generated_files' = fn_files
    /\ pc' = "pack"
    /\ UNCHANGED <<inputs, dirs, fs, reader_pages, total_pages,
                   num_expected_files, locals, zipvars, msgs>>

\* ------------------------------------------------------ packaging
\* Lines 144-147: nothing generated, nothing packed; else open the archive.
Pack ==
    /\ pc = "pack"
    /\ IF HasFiles(generated_files)
       THEN /\ fs' = WriteFile(fs, zip_path, <<>>)
            /\ zip_entries' = <<>>
            /\ zi' = 0
            /\ pc' = "zip_loop"
       ELSE /\ pc' = "exit_with"
            /\ UNCHANGED <<fs, zip_entries, zi>>
    /\ UNCHANGED <<inputs, dirs, reader_pages, total_pages,
                   num_expected_files, generated_files, locals, download,
                   offered, msgs>>

\* Lines 148-149: zipf.write(file, os.path.basename(file))
ZipUnit ==
    /\ pc = "zip_loop"
    /\ zi < Len(generated_files)
    /\ LET file == generated_files[zi + 1] IN
       \E r \in {"ok", "open_fail"} :
           \/ /\ r = "ok"
              /\ file \in DOMAIN fs
              /\ zip_entries' = Append(zip_entries,
                                       [name |-> Basename(file), data |-> fs[file]])
              /\ zi' = zi + 1
              /\ pc' = "zip_loop"
           \/ /\ r = "open_fail"
              /\ pc' = "raise"
              /\ UNCHANGED <<zip_entries, zi>>
    /\ UNCHANGED <<inputs, dirs, fs, reader_pages, total_pages,
                   num_expected_files, generated_files, locals, download,
                   offered, msgs>>

\* The archive is closed (end of the with of line 147).
ZipClose ==
    /\ pc = "zip_loop"
    /\ zi >= Len(generated_files)
    /\ pc' = "deliver"
    /\ UNCHANGED <<inputs, dirs, fs, reader_pages, total_pages,
                   num_expected_files, generated_files, locals, zipvars, msgs>>

\* Lines 152-160: success line and download button fed from the archive.
Deliver ==
    /\ pc = "deliver"
    /\ msgs' = Append(msgs, Msg("success", <<>>, 0, 0))
    /\ download' = zip_entries
    /\ offered' = TRUE
    /\ pc' = "exit_with"
    /\ UNCHANGED <<inputs, dirs, fs, reader_pages, total_pages,
                   num_expected_files, generated_files, locals, zip_entries, zi>>

\* ------------------------------------------------------ leaving the with
Cleanup(files) == RemoveTree(files, temp_dir)

\* Normal exit of `with tempfile.TemporaryDirectory()` (line 114).
ExitWith ==
    /\ pc = "exit_with"
    /\ fs' = Cleanup(fs)
    /\ dirs' = {d \in dirs : d # temp_dir /\ ~IsUnder(temp_dir, d)}
    /\ pc' = "done"
    /\ UNCHANGED <<inputs, reader_pages, total_pages, num_expected_files,
                   generated_files, locals, zipvars, msgs>>

ExceptRetry ==
    /\ pc = "raise"
    /\ pc' = "dispatch"
    /\ UNCHANGED <<inputs, dirs, fs, reader_pages, total_pages,
                   num_expected_files, generated_files, locals, zipvars, msgs>>

\* An exception leaves the with block (cleanup) and reaches line 161.
Except ==
    /\ pc = "raise"
    /\ fs' = Cleanup(fs)
    /\ dirs' = {d \in dirs : d # temp_dir /\ ~IsUnder(temp_dir, d)}
    /\ msgs' = Append(msgs, Msg("UnexpectedFailure", <<>>, 0, 0))
    /\ pc' = "done"
    /\ UNCHANGED <<inputs, reader_pages, total_pages, num_expected_files,
                   generated_files, locals, zipvars>>

Next ==
    \/ Submit
    \/ CheckNames
    \/ ReadPdf
    \/ CheckCount
    \/ Dispatch
    \/ SplitUnit
    \/ SplitReturn
    \/ ConvertStart
    \/ ConvertUnit
    \/ ConvertReturn
    \/ Pack
    \/ ZipUnit
    \/ ZipClose
    \/ Deliver
    \/ ExitWith
    \/ Except

Spec == Init /\ [][Next]_vars

\* ====================================================== properties
HasKind(kind) == \E k \in 1..Len(msgs) : msgs[k].kind = kind

LastKind == IF msgs = <<>> THEN "none" ELSE msgs[Len(msgs)].kind

\* e is the least number of chunks of `per` pages that hold `total` pages
IsCeil(e, total, per) == e * per >= total /\ (e - 1) * per < total

Smallest(a, b, c) ==
    IF a <= b /\ a <= c THEN a ELSE IF b <= c THEN b ELSE c

Distinct(names) ==
    \A j, k \in 1..Len(names) : j # k => names[j] # names[k]

RECURSIVE ConcatFiles(_)
\* the pages read back from a list of paths, in order
ConcatFiles(paths) ==
    IF paths = <<>> THEN <<>>
    ELSE fs[Head(paths)] \o ConcatFiles(Tail(paths))

OutputFiles == {p \in DOMAIN fs : IsUnder(output_dir, p)}

NothingProduced ==
    /\ OutputFiles = {}
    /\ zip_path \notin DOMAIN fs
    /\ zip_entries = <<>>
    /\ ~offered
    /\ ~HasKind("start") /\ ~HasKind("write") /\ ~HasKind("success")
    /\ pc \notin {"dispatch", "split_loop", "convert", "jpg_loop", "pack",
                  "zip_loop", "deliver"}

MismatchSubmitted ==
    /\ pc # "idle"
    /\ ~IsCeil(Len(output_filenames), doc_pages, pages_per_split)

MismatchReported ==
    \E k \in 1..Len(msgs) :
        /\ msgs[k].kind = "NameCountMismatch"
        /\ IsCeil(msgs[k].a, doc_pages, pages_per_split)
        /\ msgs[k].b = Len(output_filenames)

\* C1 as stated: whenever the number of names differs from the expected
\* unit count, the finished request has written nothing and has reported a
\* NameCountMismatch with the right expected and actual counts.
C1_Original ==
    (MismatchSubmitted /\ pc = "done" /\ ~HasKind("UnexpectedFailure"))
        => (NothingProduced /\ MismatchReported)

\* C1 amended: a request whose name count differs from the expected unit
\* count never writes an output file, never enters split_to_pdf or
\* convert_to_jpg and never creates an archive; when the name list is not
\* empty and the document was read, it ends with a NameCountMismatch carrying
\* the right counts; when the list is empty it ends with the "no names"
\* error alone, the document unread and no counts reported.
C1_MismatchGuard ==
    MismatchSubmitted =>
        /\ NothingProduced
        /\ (pc = "done" /\ ~HasKind("UnexpectedFailure")) =>
              IF output_filenames = <<>>
              THEN LastKind = "NoNames" /\ ~HasKind("NameCountMismatch")
                   /\ ~HasKind("info")
              ELSE MismatchReported /\ LastKind = "NameCountMismatch"

C1_Witness ==
    /\ pc = "done"
    /\ MismatchSubmitted
    /\ output_filenames # <<>>
    /\ doc_pages > 0
    /\ MismatchReported

UnitPages(k) ==
    LET lo == (k - 1) * pages_per_split
        hi == IF k * pages_per_split < total_pages
              THEN k * pages_per_split ELSE total_pages
    IN  [j \in 1..(hi - lo) |-> lo + j]

SplitRunning == pc = "split_loop" \/ (pc = "pack" /\ output_format = "pdf")

\* C2: split_to_pdf writes unit k (k = 1, 2, ...) to outDir/{names[k]}.pdf
\* holding the source pages (k-1)*chunkSize+1 .. min(k*chunkSize, totalPages)
\* in order, returns the written paths in unit order, and only the last unit
\* is shorter than chunkSize.
C2_SplitUnits ==
    SplitRunning =>
        /\ Len(fn_files) = file_index
        /\ \A k \in 1..Len(fn_files) :
              fn_files[k] = output_dir \o <<"/">> \o output_filenames[k] \o PdfExt
        /\ file_index > 0 =>
              /\ fs[fn_files[file_index]] = UnitPages(file_index)
              /\ Len(UnitPages(file_index)) >= 1
              /\ file_index * pages_per_split < total_pages
                    => Len(fs[fn_files[file_index]]) = pages_per_split
        /\ pc = "pack" => generated_files = fn_files

C2_Witness ==
    /\ pc = "pack"
    /\ output_format = "pdf"
    /\ Len(generated_files) >= 2
    /\ total_pages % pages_per_split # 0
    /\ Len(fs[generated_files[Len(generated_files)]]) < pages_per_split

AllPages == [j \in 1..total_pages |-> j]

SplitReturned == pc = "pack" /\ output_format = "pdf"

\* C3 as stated: for every name list that passes the guard, the files at
\* the returned paths, read in order, concatenate to the source pages.
C3_Original == SplitReturned => ConcatFiles(generated_files) = AllPages

\* C3 amended: the round trip holds when the names are pairwise distinct,
\* so that no unit's file is overwritten by a later unit.
C3_RoundTrip ==
    (SplitReturned /\ Distinct(output_filenames))
        => ConcatFiles(generated_files) = AllPages

C3_Witness ==
    /\ SplitReturned
    /\ Distinct(output_filenames)
    /\ Len(generated_files) >= 3

GuardPassed ==
    pc \in {"dispatch", "split_loop", "convert", "jpg_loop", "pack",
            "zip_loop", "deliver"}

\* C4: the expected unit count is ceil(totalPages / chunkSize); the loop of
\* split_to_pdf runs that many times, its index into the names stays inside
\* the list, and it returns exactly len(names) paths.
C4_UnitCount ==
    /\ GuardPassed =>
          /\ IsCeil(num_expected_files, total_pages, pages_per_split)
          /\ num_expected_files = Len(output_filenames)
    /\ (pc = "split_loop" /\ i < total_pages) =>
          file_index + 1 \in 1..Len(output_filenames)
    /\ SplitReturned =>
          /\ file_index = num_expected_files
          /\ Len(generated_files) = Len(output_filenames)

C4_Witness ==
    /\ SplitReturned
    /\ pages_per_split >= 2
    /\ total_pages % pages_per_split # 0
    /\ file_index = num_expected_files
    /\ num_expected_files >= 2

FewestImages == Smallest(total_pages, Len(output_filenames), Len(images))

\* C5: when the renderer returns a number of images different from
\* totalPages, a PageCountMismatch(expected, actual) warning is shown and
\* convert_to_jpg stops after min(totalPages, len(names), images) images,
\* returning that many paths.
C5_DegradedContinuation ==
    (pc = "jpg_loop" /\ Len(images) # total_pages
       /\ Len(fn_files) = FewestImages)
        => /\ \E k \in 1..Len(msgs) :
                 /\ msgs[k].kind = "PageCountMismatch"
                 /\ msgs[k].a = total_pages
                 /\ msgs[k].b = Len(images)
           /\ i >= JpgLoopBound(total_pages, output_filenames)

\* the packaging step was reached with nothing to pack
EmptyHandedToPack ==
    /\ pc \in {"exit_with", "done"}
    /\ HasKind("start")
    /\ ~HasKind("UnexpectedFailure")
    /\ generated_files = <<>>

NoArchive ==
    /\ ~offered
    /\ download = <<>>
    /\ zip_entries = <<>>
    /\ zip_path \notin DOMAIN fs

\* C6 as stated: an empty generated-file set makes the packaging step
\* report a PackagingError, and no archive is created or offered.
C6_Original == EmptyHandedToPack => (HasKind("PackagingError") /\ NoArchive)

\* C6 amended: an empty generated-file set makes the packaging step do
\* nothing: no archive is created or offered and the step shows no message
\* of its own; the last thing shown is convert_to_jpg's
\* RenderingUnavailable error, the only way the set is empty.
C6_EmptySkipsArchive ==
    EmptyHandedToPack =>
        /\ NoArchive
        /\ LastKind = "RenderingUnavailable"
        /\ output_format = "jpg" /\ convert_from_path = "None"

C6_Witness == EmptyHandedToPack /\ pc = "done"

EntryMatches(e, path) ==
    /\ \A k \in 1..Len(e.name) : e.name[k] # "/"
    /\ output_dir \o <<"/">> \o e.name = path
    /\ e.data = fs[path]
    /\ e.name # uploaded_name

\* C7: the archive holds one entry per generated path, in the given order,
\* each under the path's base name with no directory part and with that
\* file's content, and nothing else; the download serves that archive.
C7_ArchiveContents ==
    /\ pc = "zip_loop" =>
          /\ Len(zip_entries) = zi
          /\ zi <= Len(generated_files)
          /\ \A k \in 1..zi : EntryMatches(zip_entries[k], generated_files[k])
    /\ pc = "deliver" =>
          /\ Len(zip_entries) = Len(generated_files)
          /\ \A k \in 1..Len(generated_files) :
                EntryMatches(zip_entries[k], generated_files[k])
    /\ offered => download = zip_entries /\ Len(download) = Len(generated_files)

C7_Witness ==
    /\ pc = "deliver"
    /\ Len(zip_entries) >= 2
    /\ zip_entries[1].name # zip_entries[2].name

\* C8: the temporary directory exists while the request is inside the with
\* block, every file the request writes lies below it, and when the request
\* has ended, on any path, neither the directory nor any file is left.
C8_TempDirRemoved ==
    /\ \A p \in DOMAIN fs : IsUnder(temp_dir, p)
    /\ \A d \in dirs : d = temp_dir \/ IsUnder(temp_dir, d)
    /\ pc \notin {"idle", "clicked", "done"} => temp_dir \in dirs
    /\ pc = "done" => (dirs = {} /\ DOMAIN fs = {})

C8_Witness ==
    /\ pc = "done"
    /\ HasKind("UnexpectedFailure")
    /\ HasKind("write")
    /\ DOMAIN fs = {}

Phase ==
    CASE pc \in {"idle", "clicked", "read", "guard"} -> "Idle"
      [] pc = "dispatch" -> "Validated"
      [] pc \in {"split_loop", "convert", "jpg_loop", "pack", "zip_loop"}
            -> "Processing"
      [] pc = "deliver" -> "Packaged"
      [] pc = "raise" -> "Failed"
      [] pc \in {"exit_with", "done"} ->
            IF offered THEN "Delivered" ELSE "Failed"

PhaseOrder ==
    \/ Phase' = Phase
    \/ <<Phase, Phase'>> \in {<<"Idle", "Validated">>,
                              <<"Validated", "Processing">>,
                              <<"Processing", "Packaged">>,
                              <<"Packaged", "Delivered">>}
    \/ Phase \in {"Idle", "Processing"} /\ Phase' = "Failed"

FailedIsFinal ==
    Phase = "Failed" =>
        /\ Phase' = "Failed"
        /\ DOMAIN fs' \subseteq DOMAIN fs
        /\ \A p \in DOMAIN fs' : fs'[p] = fs[p]
        /\ fn_files' = fn_files
        /\ generated_files' = generated_files
        /\ zip_entries' = zip_entries
        /\ ~offered'

FailedReported ==
    /\ (Phase = "Failed" /\ pc # "raise") =>
          LastKind \in {"NoNames", "NameCountMismatch",
                        "RenderingUnavailable", "UnexpectedFailure"}
    /\ (Phase = "Failed" /\ generated_files = <<>>) => NoArchive

\* C9: the request moves only Idle -> Validated -> Processing -> Packaged ->
\* Delivered or into Failed; once Failed it stays Failed, writes no further
\* file, generates no further unit and offers no archive; a finished failed
\* request has shown an error, and a failure while generating units leaves
\* no archive.
C9_Phases == [][PhaseOrder /\ FailedIsFinal /\ FailedReported']_vars

C9_Witness ==
    /\ pc = "raise"
    /\ fn_files # <<>>
    /\ (output_format = "pdf" => i < total_pages)
    /\ (output_format = "jpg" => i < total_pages /\ i < Len(images))
    /\ generated_files = <<>>

JpgRunning ==
    /\ pc = "jpg_loop" \/ (pc = "pack" /\ output_format = "jpg"
                             /\ convert_from_path = "fn")
    /\ Len(images) = total_pages
    /\ Len(output_filenames) = total_pages

\* C10: in jpg mode the chunk size is 1, and with P pages, P names and P
\* rendered images convert_to_jpg writes image k of page k to
\* outDir/{names[k]}.jpg for k = 1..P and returns the P paths in page order.
C10_Rasterize ==
    /\ (pc # "idle" /\ output_format = "jpg") => pages_per_split = 1
    /\ JpgRunning =>
          /\ Len(fn_files) = i
          /\ \A k \in 1..Len(fn_files) :
                fn_files[k] = output_dir \o <<"/">> \o output_filenames[k] \o JpgExt
          /\ i > 0 => fs[fn_files[i]] = <<i>>
          /\ pc = "pack" =>
                /\ generated_files = fn_files
                /\ Len(generated_files) = total_pages

C10_Witness ==
    /\ pc = "pack"
    /\ output_format = "jpg"
    /\ Len(images) = total_pages
    /\ Len(generated_files) = 3
    /\ total_pages = 3

====
